---------------------------- MODULE Spec2Model ----------------------------
(***************************************************************************)
(* The Maze class of mazerunner-core (maze.h): a 16x16 grid of cells, each *)
(* with one byte of wall/visited bits and one byte of flood cost, and the  *)
(* operations that mutate the walls, flood the costs toward a target and   *)
(* select the direction of the cheapest neighbour.                         *)
(***************************************************************************)
EXTENDS Integers, Sequences, FiniteSets, TLC

(***************************************************************************)
(* Program constants (maze.h lines 25-38)                                  *)
(***************************************************************************)
MAZE_WIDTH == 16
GOAL == 34
START == 0
NORTH == 0
EAST == 1
SOUTH == 2
WEST == 3
VISITED == 240
INVALID_DIRECTION == 0
MAX_COST == 255

\* uint8_t: a cell is an 8-bit value, and so are its cost and its wall byte
Cells == 0..255
Directions == {NORTH, EAST, SOUTH, WEST}

\* the value of a uint8_t after an addition that does not fit
ToUint8(n) == n % 256

(***************************************************************************)
(* Bit operations on a wall byte                                           *)
(***************************************************************************)
Pow2(n) == IF n = 0 THEN 1 ELSE IF n = 1 THEN 2 ELSE IF n = 2 THEN 4
           ELSE IF n = 3 THEN 8 ELSE IF n = 4 THEN 16 ELSE IF n = 5 THEN 32
           ELSE IF n = 6 THEN 64 ELSE 128

\* (b & (1 << n)) != 0
BitIsSet(b, n) == (b \div Pow2(n)) % 2 = 1

\* b | (1 << n)
OrBit(b, n) == IF BitIsSet(b, n) THEN b ELSE b + Pow2(n)

\* b & ~(1 << n)
AndNotBit(b, n) == IF BitIsSet(b, n) THEN b - Pow2(n) ELSE b

\* variant: the byte is assigned VISITED instead of OR-ed with it
OrVisitedAssign(b) == VISITED

\* b | VISITED : VISITED is the whole high nibble
OrVisited(b) == (b % 16) + VISITED

(***************************************************************************)
(* Queries on the wall map                                                 *)
(***************************************************************************)
\* variant: the test of the wall bit is inverted
is_exit_inverted(walls, cell, direction) == BitIsSet(walls[cell], direction)

is_exit(walls, cell, direction) == ~BitIsSet(walls[cell], direction)

is_wall(walls, cell, direction) == BitIsSet(walls[cell], direction)

cell_is_visited(walls, cell) == (walls[cell] \div 16) * 16 = VISITED

(***************************************************************************)
(* Neighbours: 8-bit arithmetic, so the grid wraps modulo 256              *)
(***************************************************************************)
cell_north(cell) == ToUint8(cell + 1)

\* variant: the east neighbour taken one cell short
cell_east_short(cell) == ToUint8(cell + 15)

cell_east(cell) == ToUint8(cell + 16)

cell_south(cell) == ToUint8(cell + 255)

cell_west(cell) == ToUint8(cell + 240)

neighbour(cell, direction) ==
  CASE direction = NORTH -> cell_north(cell)
    [] direction = EAST  -> cell_east(cell)
    [] direction = SOUTH -> cell_south(cell)
    [] direction = WEST  -> cell_west(cell)
    [] OTHER             -> MAX_COST

\* the bit written in the neighbouring cell by the wall mutators
Opposite(direction) ==
  CASE direction = NORTH -> SOUTH
    [] direction = EAST  -> WEST
    [] direction = SOUTH -> NORTH
    [] direction = WEST  -> EAST

(***************************************************************************)
(* Wall mutators as functions of the wall map                              *)
(***************************************************************************)
\* variant: the wall is set in the cell only, not in its neighbour
SetWallPresentOneSided(walls, cell, direction) ==
  IF direction \in Directions
    THEN [walls EXCEPT ![cell] = OrBit(@, direction)]
    ELSE walls

\* variant: a direction outside 0..3 falls into the WEST case
SetWallPresentDefaultWest(walls, cell, direction) ==
  LET d == IF direction \in Directions THEN direction ELSE WEST
      nextCell == neighbour(cell, d)
      w1 == [walls EXCEPT ![cell] = OrBit(@, d)]
  IN  [w1 EXCEPT ![nextCell] = OrBit(@, Opposite(d))]

SetWallPresent(walls, cell, direction) ==
  IF direction \in Directions
    THEN LET nextCell == neighbour(cell, direction)
             w1 == [walls EXCEPT ![cell] = OrBit(@, direction)]
         IN  [w1 EXCEPT ![nextCell] = OrBit(@, Opposite(direction))]
    ELSE walls

\* variant: the wall bits are toggled instead of cleared
SetWallAbsentToggle(walls, cell, direction) ==
  IF direction \in Directions
    THEN LET nextCell == neighbour(cell, direction)
             Toggle(b, n) == IF BitIsSet(b, n) THEN AndNotBit(b, n) ELSE OrBit(b, n)
             w1 == [walls EXCEPT ![cell] = Toggle(@, direction)]
         IN  [w1 EXCEPT ![nextCell] = Toggle(@, Opposite(direction))]
    ELSE walls

SetWallAbsent(walls, cell, direction) ==
  IF direction \in Directions
    THEN LET nextCell == neighbour(cell, direction)
             w1 == [walls EXCEPT ![cell] = AndNotBit(@, direction)]
         IN  [w1 EXCEPT ![nextCell] = AndNotBit(@, Opposite(direction))]
    ELSE walls

\* the body of the boundary loop of initialise_maze for index i
PlaceBoundaryAt(walls, i) ==
  SetWallPresent(
    SetWallPresent(
      SetWallPresent(
        SetWallPresent(walls, i, WEST),
        ToUint8(15 * 16 + i), EAST),
      ToUint8(i * 16), SOUTH),
    ToUint8(16 * i + 15), NORTH)

\* for (uint8_t i = 0; i < 16; i++) { ... }, on the loop state st = [walls, i]
RECURSIVE PlaceBoundary(_)
PlaceBoundary(st) ==
  IF st.i < 16
    THEN PlaceBoundary([walls |-> PlaceBoundaryAt(st.walls, st.i), i |-> st.i + 1])
    ELSE st.walls

\* variant: the boundary loop starts at index 1
InitialiseWallsFromOne ==
  LET w0 == [i \in Cells |-> 0]
      w1 == PlaceBoundary([walls |-> w0, i |-> 1])
      w2 == SetWallPresent(w1, START, EAST)
  IN  SetWallAbsent(w2, START, NORTH)

\* variant: the north side of the start cell is walled instead of opened
InitialiseWallsClosedStart ==
  LET w0 == [i \in Cells |-> 0]
      w1 == PlaceBoundary([walls |-> w0, i |-> 0])
      w2 == SetWallPresent(w1, START, EAST)
  IN  SetWallPresent(w2, START, NORTH)

\* variant: the wall east of the start cell is not set
InitialiseWallsOpenStart ==
  LET w0 == [i \in Cells |-> 0]
      w1 == PlaceBoundary([walls |-> w0, i |-> 0])
  IN  SetWallAbsent(w1, START, NORTH)

\* the wall map initialise_maze leaves, whatever it was before
InitialiseWalls ==
  LET w0 == [i \in Cells |-> 0]
      w1 == PlaceBoundary([walls |-> w0, i |-> 0])
      w2 == SetWallPresent(w1, START, EAST)
  IN  SetWallAbsent(w2, START, NORTH)

(***************************************************************************)
(* The FIFO work queue of flood_maze                                       *)
(***************************************************************************)
QueueAdd(queue, item) == Append(queue, item)

QueueHead(queue) == Head(queue)

QueueRest(queue) == Tail(queue)

QueueSize(queue) == Len(queue)

(***************************************************************************)
(* flood_maze                                                              *)
(***************************************************************************)
\* variant: the flood does not look at the walls
FloodVisitThroughWalls(walls, fl, here, newCost, direction) ==
  LET nextCell == neighbour(here, direction)
  IN  IF fl.cost[nextCell] > newCost
        THEN [cost  |-> [fl.cost EXCEPT ![nextCell] = ToUint8(newCost)],
              queue |-> QueueAdd(fl.queue, nextCell)]
        ELSE fl

\* variant: a neighbour of equal cost is written and queued again
FloodVisitNotStrict(walls, fl, here, newCost, direction) ==
  IF is_exit(walls, here, direction)
    THEN LET nextCell == neighbour(here, direction)
         IN  IF fl.cost[nextCell] >= newCost
               THEN [cost  |-> [fl.cost EXCEPT ![nextCell] = ToUint8(newCost)],
                     queue |-> QueueAdd(fl.queue, nextCell)]
               ELSE fl
    ELSE fl

\* variant: the comparison of the costs is off by one
FloodVisitOffByOne(walls, fl, here, newCost, direction) ==
  IF is_exit(walls, here, direction)
    THEN LET nextCell == neighbour(here, direction)
         IN  IF fl.cost[nextCell] > newCost + 1
               THEN [cost  |-> [fl.cost EXCEPT ![nextCell] = ToUint8(newCost)],
                     queue |-> QueueAdd(fl.queue, nextCell)]
               ELSE fl
    ELSE fl

\* the body of the direction loop for one direction: fl = [cost, queue]
FloodVisit(walls, fl, here, newCost, direction) ==
  IF is_exit(walls, here, direction)
    THEN LET nextCell == neighbour(here, direction)
         IN  IF fl.cost[nextCell] > newCost
               THEN [cost  |-> [fl.cost EXCEPT ![nextCell] = ToUint8(newCost)],
                     queue |-> QueueAdd(fl.queue, nextCell)]
               ELSE fl
    ELSE fl

\* variant: the direction loop stops one direction early
FloodStepThreeDirections(walls, fl) ==
  LET here    == QueueHead(fl.queue)
      newCost == fl.cost[here] + 1
      f0 == [cost |-> fl.cost, queue |-> QueueRest(fl.queue)]
      f1 == FloodVisit(walls, f0, here, newCost, 0)
      f2 == FloodVisit(walls, f1, here, newCost, 1)
  IN  FloodVisit(walls, f2, here, newCost, 2)

\* one iteration of the while loop: take the head, look in all four directions
FloodStep(walls, fl) ==
  LET here    == QueueHead(fl.queue)
      newCost == fl.cost[here] + 1
      f0 == [cost |-> fl.cost, queue |-> QueueRest(fl.queue)]
      f1 == FloodVisit(walls, f0, here, newCost, 0)
      f2 == FloodVisit(walls, f1, here, newCost, 1)
      f3 == FloodVisit(walls, f2, here, newCost, 2)
  IN  FloodVisit(walls, f3, here, newCost, 3)

\* at most n iterations of the while loop, stopping when the queue is empty
\* (split in halves only to keep the evaluation shallow)
RECURSIVE FloodSteps(_, _, _)
FloodSteps(walls, fl, n) ==
  IF QueueSize(fl.queue) = 0 THEN fl
  ELSE IF n = 1 THEN FloodStep(walls, fl)
  ELSE FloodSteps(walls, FloodSteps(walls, fl, n \div 2), n - (n \div 2))

\* while (queue.size() > 0) { ... }
RECURSIVE FloodLoop(_, _)
FloodLoop(walls, fl) ==
  IF QueueSize(fl.queue) > 0
    THEN FloodLoop(walls, FloodSteps(walls, fl, 256))
    ELSE fl

\* variant: the costs of the previous flood are kept
FloodResetKeep(cost) == cost

\* for (i = 0; i < MAZE_SIZE; i++) m_cost[i] = MAX_COST;
FloodReset(cost) == [i \in DOMAIN cost |-> MAX_COST]

\* variant: the cost of the target is not set to 0 before the loop
FloodStartNoZero(cost, target) ==
  [cost  |-> FloodReset(cost),
   queue |-> QueueAdd(<<>>, target)]

\* the state of flood_maze when it enters the while loop; cost is m_cost as
\* the caller left it
FloodStart(cost, target) ==
  [cost  |-> [FloodReset(cost) EXCEPT ![target] = 0],
   queue |-> QueueAdd(<<>>, target)]

FloodMaze(walls, cost, target) == FloodLoop(walls, FloodStart(cost, target)).cost

(***************************************************************************)
(* neighbour_cost and direction_to_smallest                                *)
(***************************************************************************)
\* variant: the cost of the neighbour is returned whether or not a wall is there
neighbour_cost_through_wall(walls, cost, cell, direction) ==
  CASE direction = NORTH -> cost[cell_north(cell)]
    [] direction = EAST  -> cost[cell_east(cell)]
    [] direction = SOUTH -> cost[cell_south(cell)]
    [] direction = WEST  -> cost[cell_west(cell)]
    [] OTHER -> MAX_COST

\* variant: the wall is looked up in the byte of the neighbouring cell
neighbour_cost_far_side(walls, cost, cell, direction) ==
  IF direction \in Directions
    THEN LET nextCell == neighbour(cell, direction)
         IN  IF ~BitIsSet(walls[nextCell], Opposite(direction))
               THEN cost[nextCell] ELSE MAX_COST
    ELSE MAX_COST

neighbour_cost(walls, cost, cell, direction) ==
  CASE direction = NORTH ->
         IF ~BitIsSet(walls[cell], NORTH) THEN cost[cell_north(cell)] ELSE MAX_COST
    [] direction = EAST ->
         IF ~BitIsSet(walls[cell], EAST) THEN cost[cell_east(cell)] ELSE MAX_COST
    [] direction = SOUTH ->
         IF ~BitIsSet(walls[cell], SOUTH) THEN cost[cell_south(cell)] ELSE MAX_COST
    [] direction = WEST ->
         IF ~BitIsSet(walls[cell], WEST) THEN cost[cell_west(cell)] ELSE MAX_COST
    [] OTHER -> MAX_COST

\* variant: a neighbour of equal cost replaces the best so far
LookNotStrict(walls, cost, cell, sm, nextDirection) ==
  LET nextCost == neighbour_cost(walls, cost, cell, nextDirection)
  IN  IF nextCost <= sm.cost THEN [cost |-> nextCost, dir |-> nextDirection] ELSE sm

\* one "look" of direction_to_smallest: sm = [cost, dir] is the best so far
Look(walls, cost, cell, sm, nextDirection) ==
  LET nextCost == neighbour_cost(walls, cost, cell, nextDirection)
  IN  IF nextCost < sm.cost THEN [cost |-> nextCost, dir |-> nextDirection] ELSE sm

\* variant: the side behind the preferred direction is not looked at
DirectionToSmallestNoBehind(walls, cost, cell, startDirection) ==
  LET s0 == [cost |-> cost[cell], dir |-> INVALID_DIRECTION]
      s1 == Look(walls, cost, cell, s0, startDirection)
      s2 == Look(walls, cost, cell, s1, (startDirection + 1) % 4)
      s3 == Look(walls, cost, cell, s2, (startDirection + 3) % 4)
  IN  IF s3.cost = MAX_COST THEN 0 ELSE s3.dir

\* variant: with no cheaper neighbour the preferred direction is returned
DirectionToSmallestPreferred(walls, cost, cell, startDirection) ==
  LET s0 == [cost |-> cost[cell], dir |-> startDirection]
      s1 == Look(walls, cost, cell, s0, startDirection)
      s2 == Look(walls, cost, cell, s1, (startDirection + 1) % 4)
      s3 == Look(walls, cost, cell, s2, (startDirection + 3) % 4)
      s4 == Look(walls, cost, cell, s3, (startDirection + 2) % 4)
  IN  IF s4.cost = MAX_COST THEN startDirection ELSE s4.dir

DirectionToSmallest(walls, cost, cell, startDirection) ==
  LET s0 == [cost |-> cost[cell], dir |-> INVALID_DIRECTION]
      s1 == Look(walls, cost, cell, s0, startDirection)
      s2 == Look(walls, cost, cell, s1, (startDirection + 1) % 4)
      s3 == Look(walls, cost, cell, s2, (startDirection + 3) % 4)
      s4 == Look(walls, cost, cell, s3, (startDirection + 2) % 4)
  IN  IF s4.cost = MAX_COST THEN 0 ELSE s4.dir

(***************************************************************************)
(* State                                                                   *)
(***************************************************************************)
\* m_walls, m_cost, m_goal: the private members of Maze (lines 424-426).
\* call: the last public method called, its arguments and its return value.
\* ncalls: how many calls the exploration has made on the object.
\* goal_was_set: set_maze_goal has been called on the object.
\* queue: the local queue of a flood_maze call that is under way.
\* pc: where that call is: "idle" (not called), "loop" (at the test of the
\*     while loop) or "done" (returned).
\* added: how many times that call has handed each cell to queue.add.
VARIABLES m_walls, m_cost, m_goal, call, ncalls, goal_was_set, queue, pc, added

vars == <<m_walls, m_cost, m_goal, call, ncalls, goal_was_set, queue, pc, added>>

(***************************************************************************)
(* Bounds of the exploration                                               *)
(***************************************************************************)
\* number of method calls made on one Maze object
MaxCalls == 3
\* a direction value outside {0,1,2,3} handed to the wall mutators
BadDirection == 4

\* cells handed to the wall mutators: the start corner (whose south and west
\* neighbours wrap modulo 256) and the default goal
WallCells == {START, GOAL}
DirValues == Directions \cup {BadDirection}
VisitCells == {START}
GoalCells == {GOAL}
FloodTargets == {START, GOAL}
\* cells asked for a direction: the start, the top of the first column (north
\* side on the boundary) and the goal
QueryCells == {START, 15, GOAL}

NoArg == 0 - 1

Called(op, cell, dir, ret) ==
  /\ ncalls < MaxCalls
  /\ ncalls' = ncalls + 1
  /\ call' = [op |-> op, cell |-> cell, dir |-> dir, ret |-> ret]
  /\ goal_was_set' = (goal_was_set \/ op = "set_maze_goal")
  /\ UNCHANGED <<queue, pc, added>>

(***************************************************************************)
(* Init: the Maze after construction (member initialisers, lines 424-426)  *)
(***************************************************************************)
Init ==
  /\ m_goal = 119
  /\ m_cost = [i \in Cells |-> 0]
  /\ m_walls = [i \in Cells |-> 0]
  /\ call = [op |-> "Maze", cell |-> NoArg, dir |-> NoArg, ret |-> NoArg]
  /\ ncalls = 0
  /\ goal_was_set = FALSE
  /\ queue = <<>>
  /\ pc = "idle"
  /\ added = [i \in Cells |-> 0]

(***************************************************************************)
(* The public methods                                                      *)
(***************************************************************************)
set_maze_goal(goal_cell) ==
  /\ Called("set_maze_goal", goal_cell, NoArg, NoArg)
  /\ m_goal' = goal_cell
  /\ UNCHANGED <<m_walls, m_cost>>

mark_cell_visited(cell) ==
  /\ Called("mark_cell_visited", cell, NoArg, NoArg)
  /\ m_walls' = [m_walls EXCEPT ![cell] = OrVisited(@)]
  /\ UNCHANGED <<m_cost, m_goal>>

set_wall_present(cell, direction) ==
  /\ Called("set_wall_present", cell, direction, NoArg)
  /\ m_walls' = SetWallPresent(m_walls, cell, direction)
  /\ UNCHANGED <<m_cost, m_goal>>

set_wall_absent(cell, direction) ==
  /\ Called("set_wall_absent", cell, direction, NoArg)
  /\ m_walls' = SetWallAbsent(m_walls, cell, direction)
  /\ UNCHANGED <<m_cost, m_goal>>

initialise_maze ==
  /\ Called("initialise_maze", NoArg, NoArg, NoArg)
  /\ m_cost' = [i \in Cells |-> 0]
  /\ m_walls' = InitialiseWalls
  /\ UNCHANGED m_goal

flood_maze(target) ==
  /\ Called("flood_maze", target, NoArg, NoArg)
  /\ m_cost' = FloodMaze(m_walls, m_cost, target)
  /\ UNCHANGED <<m_walls, m_goal>>

direction_to_smallest(cell, startDirection) ==
  /\ Called("direction_to_smallest", cell, startDirection,
            DirectionToSmallest(m_walls, m_cost, cell, startDirection))
  /\ UNCHANGED <<m_walls, m_cost, m_goal>>

Next ==
  \/ initialise_maze
  \/ \E c \in WallCells, d \in DirValues : set_wall_present(c, d)
  \/ \E c \in WallCells, d \in DirValues : set_wall_absent(c, d)
  \/ \E c \in VisitCells : mark_cell_visited(c)
  \/ \E g \in GoalCells : set_maze_goal(g)
  \/ \E t \in FloodTargets : flood_maze(t)
  \/ \E c \in QueryCells, p \in Directions : direction_to_smallest(c, p)

Spec == Init /\ [][Next]_vars

(***************************************************************************)
(* The queries and the debug printers: the whole public interface          *)
(***************************************************************************)
\* cells and directions handed to neighbour_cost
NeighbourCells == {START}

maze_goal ==
  /\ Called("maze_goal", NoArg, NoArg, m_goal)
  /\ UNCHANGED <<m_walls, m_cost, m_goal>>

neighbour_cost_call(cell, direction) ==
  /\ Called("neighbour_cost", cell, direction,
            neighbour_cost(m_walls, m_cost, cell, direction))
  /\ UNCHANGED <<m_walls, m_cost, m_goal>>

\* the printers: what they write to the console is not part of the state
print_plain ==
  /\ Called("print_plain", NoArg, NoArg, NoArg)
  /\ UNCHANGED <<m_walls, m_cost, m_goal>>

print_with_costs ==
  /\ Called("print_with_costs", NoArg, NoArg, NoArg)
  /\ UNCHANGED <<m_walls, m_cost, m_goal>>

\* variant: the flood before the printing runs toward the start cell
PrintWithDirectionsFloodStart(walls, cost, goal) == FloodMaze(walls, cost, START)

\* flood_maze(maze_goal()), the first statement of print_with_directions
PrintWithDirectionsFlood(walls, cost, goal) == FloodMaze(walls, cost, goal)

\* after that flood the loops over the cells only read
print_with_directions ==
  /\ Called("print_with_directions", NoArg, NoArg, NoArg)
  /\ m_cost' = PrintWithDirectionsFlood(m_walls, m_cost, m_goal)
  /\ UNCHANGED <<m_walls, m_goal>>

print_maze_wall_data ==
  /\ Called("print_maze_wall_data", NoArg, NoArg, NoArg)
  /\ UNCHANGED <<m_walls, m_cost, m_goal>>

NextApi ==
  \/ Next
  \/ maze_goal
  \/ \E c \in NeighbourCells, d \in DirValues : neighbour_cost_call(c, d)
  \/ print_plain
  \/ print_with_costs
  \/ print_with_directions
  \/ print_maze_wall_data

SpecApi == Init /\ [][NextApi]_vars

(***************************************************************************)
(* Mazes for the flood: wall maps built from initialise_maze by calling    *)
(* the wall mutators, as the search code does while it discovers walls     *)
(***************************************************************************)
\* a wall along the east side of column col, from row st.r up, open at row gap
RECURSIVE AddDivider(_, _, _)
AddDivider(st, col, gap) ==
  IF st.r < MAZE_WIDTH
    THEN AddDivider(
           [walls |-> IF st.r = gap THEN st.walls
                      ELSE SetWallPresent(st.walls, MAZE_WIDTH * col + st.r, EAST),
            r     |-> st.r + 1],
           col, gap)
    ELSE st.walls

\* dividers east of columns st.col .. n-1, open at the top of even columns and
\* at the bottom of odd ones: with n = 15 a single corridor through all cells
RECURSIVE AddDividers(_, _)
AddDividers(st, n) ==
  IF st.col < n
    THEN AddDividers(
           [walls |-> AddDivider([walls |-> st.walls, r |-> 0], st.col,
                                 IF st.col % 2 = 0 THEN MAZE_WIDTH - 1 ELSE 0),
            col   |-> st.col + 1],
           n)
    ELSE st.walls

Serpentine(n) == AddDividers([walls |-> InitialiseWalls, col |-> 0], n)

\* walls on all four sides of a cell
BoxCell(walls, cell) ==
  SetWallPresent(
    SetWallPresent(
      SetWallPresent(
        SetWallPresent(walls, cell, NORTH),
        cell, EAST),
      cell, SOUTH),
    cell, WEST)

CallOf(op, cell, dir) == [op |-> op, cell |-> cell, dir |-> dir, ret |-> NoArg]

\* the cell of the last set_wall_present call that builds Serpentine(n)
LastDividerCell(n) ==
  MAZE_WIDTH * (n - 1) + (IF (n - 1) % 2 = 0 THEN MAZE_WIDTH - 2 ELSE MAZE_WIDTH - 1)

\* each maze with the last call that was made to build it
MazeFamily ==
  {[walls |-> [i \in Cells |-> 0], call |-> CallOf("Maze", NoArg, NoArg)],
   [walls |-> InitialiseWalls, call |-> CallOf("initialise_maze", NoArg, NoArg)],
   [walls |-> SetWallAbsent(InitialiseWalls, START, EAST),
    call  |-> CallOf("set_wall_absent", START, EAST)],
   [walls |-> BoxCell(InitialiseWalls, GOAL),
    call  |-> CallOf("set_wall_present", GOAL, WEST)]}
  \cup {[walls |-> Serpentine(n),
          call  |-> CallOf("set_wall_present", LastDividerCell(n), EAST)]
           : n \in 1..(MAZE_WIDTH - 1)}
  \cup {[walls |-> BoxCell(Serpentine(n), GOAL),
          call  |-> CallOf("set_wall_present", GOAL, WEST)]
           : n \in {3, MAZE_WIDTH - 1}}

\* a maze of the family, no flood run on it yet, no call explored yet
InitFlood ==
  \E m \in MazeFamily :
    /\ m_walls = m.walls
    /\ call = m.call
    /\ m_cost = [i \in Cells |-> 0]
    /\ m_goal = 119
    /\ ncalls = 0
    /\ goal_was_set = FALSE
    /\ queue = <<>>
    /\ pc = "idle"
    /\ added = [i \in Cells |-> 0]

\* one flood of each maze, toward any of the 256 cells
NextFlood == \E t \in Cells : ncalls = 0 /\ flood_maze(t)

SpecFlood == InitFlood /\ [][NextFlood]_vars

(***************************************************************************)
(* flood_maze one loop iteration at a time, to observe the queue and the   *)
(* costs while the call is under way                                       *)
(***************************************************************************)
\* targets of the floods that are followed step by step
StepTargets == {START, GOAL, 119, 255}

\* how often cell c is among the entries of q behind the first kept ones:
\* the entries queue.add has appended since the queue held kept entries
NewlyAdded(kept, q, c) == Cardinality({k \in (kept + 1)..QueueSize(q) : q[k] = c})

\* the call up to the first test of the while loop
flood_maze_enter(target) ==
  /\ pc = "idle"
  /\ LET fl == FloodStart(m_cost, target)
     IN  /\ m_cost' = fl.cost
         /\ queue' = fl.queue
  /\ added' = [c \in Cells |-> NewlyAdded(0, queue', c)]
  /\ pc' = "loop"
  /\ call' = CallOf("flood_maze", target, NoArg)
  /\ ncalls' = ncalls + 1
  /\ UNCHANGED <<m_walls, m_goal, goal_was_set>>

\* one iteration of the while loop
flood_maze_iterate ==
  /\ pc = "loop"
  /\ QueueSize(queue) > 0
  /\ LET fl == FloodStep(m_walls, [cost |-> m_cost, queue |-> queue])
     IN  /\ m_cost' = fl.cost
         /\ queue' = fl.queue
  /\ added' = [c \in Cells |-> added[c] + NewlyAdded(QueueSize(queue) - 1, queue', c)]
  /\ UNCHANGED <<m_walls, m_goal, call, ncalls, goal_was_set, pc>>

\* the loop test fails and the call returns
flood_maze_return ==
  /\ pc = "loop"
  /\ QueueSize(queue) = 0
  /\ pc' = "done"
  /\ UNCHANGED <<m_walls, m_cost, m_goal, call, ncalls, goal_was_set, queue, added>>

NextFloodSteps ==
  \/ \E t \in StepTargets : flood_maze_enter(t)
  \/ flood_maze_iterate
  \/ flood_maze_return

\* a call that has been entered keeps running: nothing else runs on the
\* object while flood_maze executes
SpecFloodSteps == InitFlood /\ [][NextFloodSteps]_vars /\ WF_vars(NextFloodSteps)

(***************************************************************************)
(* Wall discovery: a maze that has been flooded toward a target, walls     *)
(* added by set_wall_present, and a new flood toward the same target       *)
(***************************************************************************)
\* targets of the two floods
DiscoverTargets == {START, GOAL}
\* cells on which walls are discovered: the start, the cell south-west of
\* the goal cell (in the first two columns of the corridor mazes) and the goal
DiscoverCells == {START, 17, GOAL}

\* a maze of the family right after flood_maze(t)
InitDiscover ==
  \E m \in MazeFamily, t \in DiscoverTargets :
    /\ m_walls = m.walls
    /\ m_cost = FloodMaze(m.walls, [i \in Cells |-> 0], t)
    /\ call = CallOf("flood_maze", t, NoArg)
    /\ m_goal = 119
    /\ ncalls = 0
    /\ goal_was_set = FALSE
    /\ queue = <<>>
    /\ pc = "idle"
    /\ added = [i \in Cells |-> 0]

\* a wall is added, as long as a call is left for the flood that follows
discover_wall(cell, direction) ==
  /\ ncalls = 0 \/ call.op = "set_wall_present"
  /\ ncalls < MaxCalls - 1
  /\ set_wall_present(cell, direction)

\* the flood is run again toward the target of the flood before: the one
\* cell that holds cost 0
flood_again(target) ==
  /\ call.op = "set_wall_present"
  /\ m_cost[target] = 0
  /\ flood_maze(target)

NextDiscover ==
  \/ \E c \in DiscoverCells, d \in DirValues : discover_wall(c, d)
  \/ \E t \in Cells : flood_again(t)

SpecDiscover == InitDiscover /\ [][NextDiscover]_vars

(***************************************************************************)
(* Vocabulary of the properties                                            *)
(***************************************************************************)
\* every perimeter cell has its outward-facing wall
PerimeterWalls(walls) ==
  \A i \in 0..15 :
    /\ is_wall(walls, i, WEST)
    /\ is_wall(walls, 240 + i, EAST)
    /\ is_wall(walls, 16 * i, SOUTH)
    /\ is_wall(walls, 16 * i + 15, NORTH)

\* side d of cell c faces off the 16x16 grid
OutwardSide(c, d) ==
  \/ d = WEST /\ c \in 0..15
  \/ d = EAST /\ c \in 240..255
  \/ d = SOUTH /\ c % 16 = 0
  \/ d = NORTH /\ c % 16 = 15

Min2(a, b) == IF a <= b THEN a ELSE b

\* the smallest of the four neighbour costs of a cell
MinNeighbourCost(walls, cost, c) ==
  Min2(Min2(neighbour_cost(walls, cost, c, NORTH), neighbour_cost(walls, cost, c, EAST)),
       Min2(neighbour_cost(walls, cost, c, SOUTH), neighbour_cost(walls, cost, c, WEST)))

\* ahead, right, left, behind
ScanOrder(p) == <<p, (p + 1) % 4, (p + 3) % 4, (p + 2) % 4>>

\* the first direction of the scan order whose neighbour cost is the minimum
FirstMinimal(walls, cost, c, p) ==
  LET m == MinNeighbourCost(walls, cost, c)
      o == ScanOrder(p)
      i == CHOOSE k \in 1..4 :
             /\ neighbour_cost(walls, cost, c, o[k]) = m
             /\ \A j \in 1..(k - 1) : neighbour_cost(walls, cost, c, o[j]) # m
  IN  o[i]

(***************************************************************************)
(* C1  Wall symmetry: in every reachable state, for every cell c and       *)
(* direction d in 0..3, the wall bit d of c equals the wall bit (d+2) mod 4 *)
(* of neighbour(c,d), the neighbour taken modulo 256.                      *)
(***************************************************************************)
C1_WallSymmetry ==
  \A c \in Cells, d \in Directions :
    is_wall(m_walls, c, d) = is_wall(m_walls, neighbour(c, d), (d + 2) % 4)

\* a wall was set across the modulo-256 wrap (cell 0 south is cell 255) and a
\* call with a direction outside 0..3 has been made on the walled map
C1_Witness ==
  /\ is_wall(m_walls, START, SOUTH)
  /\ is_wall(m_walls, 255, NORTH)
  /\ ~is_wall(m_walls, 15, WEST)
  /\ call.op = "set_wall_absent"
  /\ call.dir = BadDirection

(***************************************************************************)
(* C5  Boundary invariant: right after initialise_maze, whatever the state *)
(* before, every perimeter cell has its outward-facing wall.               *)
(***************************************************************************)
C5_BoundaryAfterInitialise ==
  call.op = "initialise_maze" => PerimeterWalls(m_walls)

\* initialise_maze was called on an object already used
C5_Witness ==
  /\ call.op = "initialise_maze"
  /\ ncalls >= 2
  /\ PerimeterWalls(m_walls)

\* the calls that write wall bits or costs; the other calls leave both as the
\* state before them had them
Writers ==
  {"Maze", "initialise_maze", "set_wall_present", "set_wall_absent", "flood_maze"}

\* c has a side whose neighbour cost is strictly less than its own cost
Improving(c) == MinNeighbourCost(m_walls, m_cost, c) < m_cost[c]

(***************************************************************************)
(* C3  as claimed: in every state, for every cell c and every preferred    *)
(* direction p, the direction returned by direction_to_smallest(c,p) is an *)
(* open side of c.  Refuted: when no side improves on cost[c] the function *)
(* returns 0 (NORTH) even though the north side of c carries a wall.       *)
(***************************************************************************)
C3_NeverThroughWall ==
  /\ call.op = "direction_to_smallest" => is_exit(m_walls, call.cell, call.ret)
  /\ call.op \in Writers =>
       \A c \in Cells, p \in Directions :
         is_exit(m_walls, c, DirectionToSmallest(m_walls, m_cost, c, p))

(***************************************************************************)
(* C3  amended: whenever some side of c has a neighbour cost strictly less *)
(* than cost[c], the direction returned by direction_to_smallest(c,p) is   *)
(* an open side of c.  Stated of the value a call returned, and of every   *)
(* cell and preferred direction in each state a writer leaves.             *)
(***************************************************************************)
C3_OpenWhenImproving ==
  /\ (call.op = "direction_to_smallest" /\ Improving(call.cell))
       => is_exit(m_walls, call.cell, call.ret)
  /\ call.op \in Writers =>
       \A c \in Cells :
         Improving(c) =>
           \A p \in Directions :
             is_exit(m_walls, c, DirectionToSmallest(m_walls, m_cost, c, p))

\* the start cell was asked with its walled east side ahead, the cell behind
\* that wall being nearer the target than the start cell itself
C3_Witness ==
  /\ call.op = "direction_to_smallest"
  /\ call.cell = START
  /\ call.dir = EAST
  /\ is_wall(m_walls, START, EAST)
  /\ m_cost[cell_east(START)] < m_cost[START]
  /\ is_exit(m_walls, START, call.ret)
  /\ call.ret = NORTH

(***************************************************************************)
(* C4  Tie-break order: for every cell c and preferred direction p, if the *)
(* least neighbour cost of c is strictly less than cost[c], then           *)
(* direction_to_smallest(c,p) is the first direction in the order ahead,   *)
(* right, left, behind whose neighbour cost is that least cost.  Stated of *)
(* the value a call returned, and of every cell and preferred direction in *)
(* each state a writer leaves.                                             *)
(***************************************************************************)
C4_TieBreakOrder ==
  /\ (call.op = "direction_to_smallest" /\ Improving(call.cell))
       => call.ret = FirstMinimal(m_walls, m_cost, call.cell, call.dir)
  /\ call.op \in Writers =>
       \A c \in Cells :
         Improving(c) =>
           \A p \in Directions :
             DirectionToSmallest(m_walls, m_cost, c, p)
               = FirstMinimal(m_walls, m_cost, c, p)

\* ahead and right tie for the lowest cost, below the cell's own, and the
\* call returned ahead
C4_Witness ==
  /\ call.op = "direction_to_smallest"
  /\ LET c == call.cell
         p == call.dir
         m == MinNeighbourCost(m_walls, m_cost, c)
     IN  /\ m < m_cost[c]
         /\ neighbour_cost(m_walls, m_cost, c, p) = m
         /\ neighbour_cost(m_walls, m_cost, c, (p + 1) % 4) = m
         /\ call.ret = p

(***************************************************************************)
(* C7  End-to-end scenario: when flood_maze(0x22) is called on the state   *)
(* that initialise_maze has just left, cost[START] is 4, cost[0x22] is 0   *)
(* and direction_to_smallest(START, NORTH) is NORTH, an open side of the   *)
(* start cell whose neighbour cost is less than 4.                         *)
(***************************************************************************)
C7_EndToEnd ==
  [][(call.op = "initialise_maze" /\ call'.op = "flood_maze" /\ call'.cell = GOAL)
       => /\ m_cost'[START] = 4
          /\ m_cost'[GOAL] = 0
          /\ LET d == DirectionToSmallest(m_walls', m_cost', START, NORTH)
             IN  /\ is_exit(m_walls', START, d)
                 /\ neighbour_cost(m_walls', m_cost', START, d) < 4
                 /\ d = NORTH
                 /\ is_wall(m_walls', START, EAST)]_vars

\* the flood toward 0x22 has run on the walls initialise_maze leaves
C7_Witness ==
  /\ call.op = "flood_maze"
  /\ call.cell = GOAL
  /\ ncalls = 2
  /\ m_walls = InitialiseWalls
  /\ m_cost[START] = 4

(***************************************************************************)
(* C10  as claimed: once the perimeter walls stand, no set_wall_present or *)
(* set_wall_absent call, whatever its cell and direction, removes one.     *)
(* Refuted: set_wall_absent(0, WEST) clears the west wall of cell 0.       *)
(***************************************************************************)
C10_PermanentPerimeter ==
  [][(PerimeterWalls(m_walls) /\ call'.op \in {"set_wall_present", "set_wall_absent"})
       => PerimeterWalls(m_walls')]_vars

\* every cell whose cost a flood set has a neighbour on the grid (not across
\* the modulo-256 wrap) through an open side, one move nearer the target
NoWrapPropagation(walls, cost) ==
  \A c \in Cells :
    cost[c] \in 1..(MAX_COST - 1) =>
      \E d \in Directions :
        /\ ~OutwardSide(c, d)
        /\ is_exit(walls, c, d)
        /\ cost[neighbour(c, d)] = cost[c] - 1

(***************************************************************************)
(* C10  amended: once the perimeter walls stand, they still stand after    *)
(* any set_wall_present call and after any set_wall_absent call that does  *)
(* not name the outward-facing side of a perimeter cell; and a flood_maze  *)
(* run while they stand propagates no cost across the modulo-256 wrap.     *)
(***************************************************************************)
C10_PerimeterUnlessCleared ==
  [][/\ (/\ PerimeterWalls(m_walls)
         /\ call'.op \in {"set_wall_present", "set_wall_absent"}
         /\ ~(call'.op = "set_wall_absent" /\ OutwardSide(call'.cell, call'.dir)))
        => PerimeterWalls(m_walls')
     /\ (PerimeterWalls(m_walls) /\ call'.op = "flood_maze")
        => NoWrapPropagation(m_walls', m_cost')]_vars

\* a wall of a perimeter cell was cleared on a side that faces into the grid,
\* and the perimeter still stands
C10_Witness ==
  /\ call.op = "set_wall_absent"
  /\ call.cell = START
  /\ call.dir = EAST
  /\ is_exit(m_walls, START, EAST)
  /\ PerimeterWalls(m_walls)

(***************************************************************************)
(* Shortest paths, computed independently of flood_maze: the cells are     *)
(* collected ring by ring around the target, a ring being the cells not    *)
(* yet collected that share an open passage with the ring before it.       *)
(***************************************************************************)
NoPath == 0 - 1

\* side d of cell c is open, seen from c and from the cell behind it
Passage(walls, c, d) ==
  /\ is_exit(walls, c, d)
  /\ is_exit(walls, neighbour(c, d), (d + 2) % 4)

\* st = [ring, seen, k, dist]: the ring at k moves, the cells collected so
\* far and their move counts
RingStep(walls, st) ==
  LET next == UNION {{neighbour(c, d) : d \in {e \in Directions : Passage(walls, c, e)}}
                       : c \in st.ring}
                \ st.seen
  IN  [ring |-> next,
       seen |-> st.seen \cup next,
       k    |-> st.k + 1,
       dist |-> [c \in next |-> st.k + 1] @@ st.dist]

\* at most n rings more (split in halves to keep the evaluation shallow)
RECURSIVE RingSteps(_, _, _)
RingSteps(walls, st, n) ==
  IF st.ring = {} THEN st
  ELSE IF n = 1 THEN RingStep(walls, st)
  ELSE RingSteps(walls, RingSteps(walls, st, n \div 2), n - (n \div 2))

\* the number of moves of a shortest path from each cell to target, NoPath
\* for the cells that have none (no path is longer than 255 moves)
ShortestDist(walls, target) ==
  RingSteps(walls,
            [ring |-> {target}, seen |-> {target}, k |-> 0,
             dist |-> [[c \in Cells |-> NoPath] EXCEPT ![target] = 0]],
            256).dist

Symmetric(walls) ==
  \A c \in Cells, d \in Directions :
    is_wall(walls, c, d) = is_wall(walls, neighbour(c, d), (d + 2) % 4)

Row(c) == c % MAZE_WIDTH
Col(c) == c \div MAZE_WIDTH
Abs(n) == IF n < 0 THEN 0 - n ELSE n
Manhattan(a, b) == Abs(Row(a) - Row(b)) + Abs(Col(a) - Col(b))

\* the only walls are the perimeter walls
OpenGrid(walls) ==
  \A c \in Cells, d \in Directions : is_wall(walls, c, d) <=> OutwardSide(c, d)

\* every wall initialise_maze places is present: the wall maps that
\* set_wall_present calls reach from the initialised maze
ContainsInitialWalls(walls) ==
  \A c \in Cells, d \in Directions :
    is_wall(InitialiseWalls, c, d) => is_wall(walls, c, d)

(***************************************************************************)
(* C2  Flood correctness: when flood_maze(T) returns on a wall map that is *)
(* symmetric and has all its perimeter walls, every cell with an open path *)
(* to T holds the number of moves of its shortest path to T, and every     *)
(* cell without one holds 255.                                             *)
(***************************************************************************)
C2_FloodCorrect ==
  (call.op = "flood_maze" /\ Symmetric(m_walls) /\ PerimeterWalls(m_walls))
    => LET dist == ShortestDist(m_walls, call.cell)
       IN  \A c \in Cells :
             m_cost[c] = IF dist[c] = NoPath THEN MAX_COST ELSE dist[c]

\* a flood of a walled maze: some cell is further from the target than on
\* the open grid, and some cell is cut off from it
C2_Witness ==
  /\ call.op = "flood_maze"
  /\ Symmetric(m_walls)
  /\ PerimeterWalls(m_walls)
  /\ \E c \in Cells : m_cost[c] < MAX_COST /\ m_cost[c] > Manhattan(c, call.cell)
  /\ \E c \in Cells : ShortestDist(m_walls, call.cell)[c] = NoPath

(***************************************************************************)
(* C6  Open-grid flood equals Manhattan distance: on a maze whose only     *)
(* walls are the perimeter walls, after flood_maze(T) every cell c holds   *)
(* |row(c)-row(T)| + |col(c)-col(T)|, row = c mod 16 and col = c div 16.   *)
(***************************************************************************)
C6_OpenGridManhattan ==
  (call.op = "flood_maze" /\ OpenGrid(m_walls))
    => \A c \in Cells : m_cost[c] = Manhattan(c, call.cell)

\* the example of the claim: target 0, and the cell at row 2, column 3
C6_Witness ==
  /\ call.op = "flood_maze"
  /\ OpenGrid(m_walls)
  /\ call.cell = 0
  /\ m_cost[2 + 16 * 3] = 5

(***************************************************************************)
(* C8  Target self-cost: when flood_maze(T) returns, cost[T] is 0, with or *)
(* without perimeter walls and for every T in 0..255.                      *)
(***************************************************************************)
C8_TargetSelfCost ==
  call.op = "flood_maze" => m_cost[call.cell] = 0

\* a flood on the wall map without perimeter walls, where the costs wrap
\* around modulo 256 and come back to the target's neighbours
C8_Witness ==
  /\ call.op = "flood_maze"
  /\ ~PerimeterWalls(m_walls)
  /\ call.cell = 255
  /\ m_cost[0] = 1
  /\ m_cost[255] = 0

(***************************************************************************)
(* C9  as claimed: on a wall map reached from initialise_maze by           *)
(* set_wall_present calls, after flood_maze(T) every cell with an open     *)
(* path to T holds a cost in 0..254.  Refuted: in a single corridor        *)
(* through all 256 cells the far end is 255 moves away and holds 255.      *)
(***************************************************************************)
C9_ReachableBelowSentinel ==
  (call.op = "flood_maze" /\ Symmetric(m_walls) /\ ContainsInitialWalls(m_walls))
    => LET dist == ShortestDist(m_walls, call.cell)
       IN  \A c \in Cells : dist[c] # NoPath => m_cost[c] \in 0..(MAX_COST - 1)

(***************************************************************************)
(* C9  amended: on such a wall map, after flood_maze(T) every cell whose   *)
(* shortest path to T has at most 254 moves holds a cost in 0..254, and    *)
(* 255 appears only on cells that have no path to T or whose shortest path *)
(* to T has exactly 255 moves.                                             *)
(***************************************************************************)
C9_SentinelOrFarEnd ==
  (call.op = "flood_maze" /\ Symmetric(m_walls) /\ ContainsInitialWalls(m_walls))
    => LET dist == ShortestDist(m_walls, call.cell)
       IN  \A c \in Cells :
             /\ dist[c] \in 0..(MAX_COST - 1) => m_cost[c] \in 0..(MAX_COST - 1)
             /\ m_cost[c] = MAX_COST => dist[c] \in {NoPath, MAX_COST}

\* the corridor flooded from one of its ends: the last cell but one holds
\* 254, and the far end, 255 moves away, holds 255
C9_Witness ==
  /\ call.op = "flood_maze"
  /\ Symmetric(m_walls)
  /\ ContainsInitialWalls(m_walls)
  /\ \E c \in Cells : m_cost[c] = MAX_COST - 1
  /\ \E c \in Cells :
       m_cost[c] = MAX_COST /\ ShortestDist(m_walls, call.cell)[c] = MAX_COST

(***************************************************************************)
(* C11: when no side of a cell is open onto a neighbour of strictly       *)
(* smaller cost (all sides walled, no cheaper open neighbour, the cell is  *)
(* the flood target, or its cost is 255), direction_to_smallest returns 0  *)
(* (NORTH) for every preferred direction, whether or not the north side    *)
(* is walled.                                                              *)
(***************************************************************************)
C11_FallbackNorth ==
  /\ call.op \in Writers =>
       \A c \in Cells :
         ~Improving(c) =>
           \A p \in Directions : DirectionToSmallest(m_walls, m_cost, c, p) = NORTH
  /\ (call.op = "direction_to_smallest" /\ ~Improving(call.cell)) => call.ret = NORTH

\* asked at the top of the first column with EAST preferred: north is walled,
\* nothing is cheaper, and the answer is NORTH
C11_Witness ==
  /\ call.op = "direction_to_smallest"
  /\ call.cell = 15
  /\ call.dir = EAST
  /\ is_wall(m_walls, 15, NORTH)
  /\ ~Improving(15)
  /\ call.ret = NORTH

(***************************************************************************)
(* C12: on a Maze on which set_maze_goal has never been called,            *)
(* maze_goal() returns the default goal 0x22 (GOAL).                       *)
(***************************************************************************)
C12_DefaultGoal ==
  (call.op = "maze_goal" /\ ~goal_was_set) => call.ret = GOAL

(***************************************************************************)
(* C13: whatever the state before, initialise_maze() leaves all 256 costs  *)
(* at 0, no cell visited, and as walls exactly the outward sides of the    *)
(* perimeter cells and the wall between cell 0 and cell 16; the north side *)
(* of the start cell is open, seen from cell 0 and from cell 1.            *)
(***************************************************************************)
C13_InitialiseResult ==
  call.op = "initialise_maze" =>
    /\ \A c \in Cells : m_cost[c] = 0
    /\ \A c \in Cells : ~cell_is_visited(m_walls, c) /\ m_walls[c] < 16
    /\ \A c \in Cells, d \in Directions :
         is_wall(m_walls, c, d) <=>
           \/ OutwardSide(c, d)
           \/ (c = START /\ d = EAST)
           \/ (c = cell_east(START) /\ d = WEST)
    /\ is_exit(m_walls, START, NORTH)
    /\ is_exit(m_walls, cell_north(START), SOUTH)

\* initialise_maze as the last of three calls on the object
C13_Witness ==
  /\ call.op = "initialise_maze"
  /\ ncalls = 3
  /\ m_cost[GOAL] = 0
  /\ is_wall(m_walls, START, EAST)
  /\ is_exit(m_walls, START, NORTH)

(***************************************************************************)
(* C14: the costs flood_maze(T) leaves depend on the wall bits and on T    *)
(* only, not on the costs before the call (the same call on other prior    *)
(* costs, and the same call repeated, give the same field); the call       *)
(* leaves the wall bytes, with their visited flags, and the goal as they   *)
(* were.                                                                   *)
(***************************************************************************)
\* a cost field that differs from cost in every cell
OtherCosts(cost) == [i \in Cells |-> MAX_COST - cost[i]]

C15_InvalidDirectionNoOp ==
  [][(call'.op \in {"set_wall_present", "set_wall_absent"} /\ call'.dir \notin Directions)
       => /\ m_walls' = m_walls
          /\ m_cost' = m_cost
          /\ m_goal' = m_goal]_vars

\* set_wall_absent with a bad direction on the initialised maze: cell 255
\* keeps its north and east walls, cell 0 its south and west walls
C15_Witness ==
  /\ call.op = "set_wall_absent"
  /\ call.dir = BadDirection
  /\ call.cell = START
  /\ neighbour(call.cell, call.dir) = 255
  /\ is_wall(m_walls, 255, NORTH) /\ is_wall(m_walls, 255, EAST)
  /\ is_wall(m_walls, START, SOUTH) /\ is_wall(m_walls, START, WEST)

(***************************************************************************)
(* C16: right after set_wall_absent(c, d) with d in {0,1,2,3}, is_exit(c,  *)
(* d) holds and a second set_wall_absent(c, d) would change nothing; right *)
(* after set_wall_present(c, d), is_wall(c, d) holds and a second          *)
(* set_wall_present(c, d) would change nothing.                            *)
(***************************************************************************)
C16_IdempotentWallMutation ==
  /\ (call.op = "set_wall_absent" /\ call.dir \in Directions) =>
       /\ is_exit(m_walls, call.cell, call.dir)
       /\ SetWallAbsent(m_walls, call.cell, call.dir) = m_walls
  /\ (call.op = "set_wall_present" /\ call.dir \in Directions) =>
       /\ is_wall(m_walls, call.cell, call.dir)
       /\ SetWallPresent(m_walls, call.cell, call.dir) = m_walls

\* the wall east of the start cell removed from the initialised maze
C16_Witness ==
  /\ call.op = "set_wall_absent"
  /\ call.cell = START
  /\ call.dir = EAST
  /\ PerimeterWalls(m_walls)
  /\ is_exit(m_walls, START, EAST)
  /\ is_exit(m_walls, cell_east(START), WEST)

(***************************************************************************)
(* C17: mark_cell_visited(c) changes no wall bit of any cell and no byte   *)
(* of any other cell; set_wall_present(c, d) and set_wall_absent(c, d)     *)
(* with d in {0,1,2,3} change at most bit d of cell c and bit (d+2) mod 4  *)
(* of neighbour(c, d), and leave every visited flag, every other wall      *)
(* bit, all costs and the goal as they were.                               *)
(***************************************************************************)
\* bytes a and b agree in every bit but bit n
SameButBit(a, b, n) == \A k \in (0..7) \ {n} : BitIsSet(a, k) = BitIsSet(b, k)

C17_VisitedAndWallBitsIndependent ==
  [][/\ call'.op = "mark_cell_visited" =>
          /\ \A x \in Cells : m_walls'[x] % 16 = m_walls[x] % 16
          /\ \A x \in Cells \ {call'.cell} : m_walls'[x] = m_walls[x]
     /\ (call'.op \in {"set_wall_present", "set_wall_absent"} /\ call'.dir \in Directions) =>
          LET c == call'.cell
              d == call'.dir
              n == neighbour(c, d)
          IN  /\ \A x \in Cells \ {c, n} : m_walls'[x] = m_walls[x]
              /\ SameButBit(m_walls'[c], m_walls[c], d)
              /\ SameButBit(m_walls'[n], m_walls[n], (d + 2) % 4)
              /\ \A x \in Cells :
                   cell_is_visited(m_walls', x) = cell_is_visited(m_walls, x)
              /\ m_cost' = m_cost
              /\ m_goal' = m_goal]_vars

\* a wall set on the north side of the visited start cell of the initialised
\* maze: the cell is still visited and the perimeter still stands
C17_Witness ==
  /\ call.op = "set_wall_present"
  /\ call.cell = START
  /\ call.dir = NORTH
  /\ cell_is_visited(m_walls, START)
  /\ ~cell_is_visited(m_walls, cell_north(START))
  /\ is_wall(m_walls, START, NORTH)
  /\ PerimeterWalls(m_walls)

(***************************************************************************)
(* C18: direction_to_smallest(c, p) and neighbour_cost(c, d) change no     *)
(* wall byte, no cost and not the goal, and the value of                   *)
(* direction_to_smallest(c, p) is fixed by p, the wall bits of c, cost[c]  *)
(* and the costs of the four modular neighbours of c: it is the same on a  *)
(* maze that agrees on those and differs everywhere else.                  *)
(***************************************************************************)
\* c and its four neighbours c+1, c+16, c-1, c-16 modulo 256
Around(c) == {c, ToUint8(c + 1), ToUint8(c + 16), ToUint8(c + 255), ToUint8(c + 240)}

\* the wall map with the visited flag of c and every wall bit of every other
\* cell inverted
WallsElsewhereChanged(walls, c) ==
  [x \in Cells |->
     IF x = c
       THEN (walls[c] % 16) + (IF cell_is_visited(walls, c) THEN 0 ELSE VISITED)
       ELSE 15 - (walls[x] % 16)]

\* the cost field with every cost outside Around(c) changed
CostsElsewhereChanged(cost, c) ==
  [x \in Cells |-> IF x \in Around(c) THEN cost[x] ELSE MAX_COST - cost[x]]

C18_PureDirectionQuery ==
  [][/\ call'.op \in {"direction_to_smallest", "neighbour_cost"} =>
          /\ m_walls' = m_walls
          /\ m_cost' = m_cost
          /\ m_goal' = m_goal
     /\ call'.op = "direction_to_smallest" =>
          call'.ret = DirectionToSmallest(WallsElsewhereChanged(m_walls, call'.cell),
                                          CostsElsewhereChanged(m_cost, call'.cell),
                                          call'.cell, call'.dir)]_vars

\* asked at the goal cell after a flood toward the start on the wall-less
\* map: WEST, one of the two sides that lead down from cost 4 to cost 3
C18_Witness ==
  /\ call.op = "direction_to_smallest"
  /\ call.cell = GOAL
  /\ call.dir = NORTH
  /\ call.ret = WEST
  /\ m_cost[GOAL] = 4
  /\ m_cost[cell_west(GOAL)] = 3

(***************************************************************************)
(* C19  as claimed: print_plain, print_with_costs, print_with_directions   *)
(* and print_maze_wall_data leave every wall byte, every cost and the      *)
(* goal as they were.                                                      *)
(***************************************************************************)
Printers ==
  {"print_plain", "print_with_costs", "print_with_directions", "print_maze_wall_data"}

C19_PrintersReadOnly ==
  [][call'.op \in Printers =>
       /\ m_walls' = m_walls
       /\ m_cost' = m_cost
       /\ m_goal' = m_goal]_vars

(***************************************************************************)
(* C19  as the code has it: print_plain, print_with_costs and              *)
(* print_maze_wall_data leave every wall byte, every cost and the goal as  *)
(* they were; print_with_directions leaves the wall bytes and the goal,    *)
(* and leaves as costs the flood toward maze_goal() on the current walls,  *)
(* so the costs stay only if the last call was flood_maze(maze_goal()).    *)
(***************************************************************************)
C19_PrintersExceptDirections ==
  [][/\ call'.op \in Printers \ {"print_with_directions"} =>
          /\ m_walls' = m_walls
          /\ m_cost' = m_cost
          /\ m_goal' = m_goal
     /\ call'.op = "print_with_directions" =>
          /\ m_walls' = m_walls
          /\ m_goal' = m_goal
          /\ m_cost' = FloodMaze(m_walls, OtherCosts(m_cost), m_goal)
          /\ (call.op = "flood_maze" /\ call.cell = m_goal) => m_cost' = m_cost]_vars

\* print_with_directions with the goal set to 0x22: the costs are those of
\* the flood toward 0x22 on the wall-less map
C19_Witness ==
  /\ call.op = "print_with_directions"
  /\ goal_was_set
  /\ m_goal = GOAL
  /\ m_cost[GOAL] = 0
  /\ m_cost[START] = 4

(***************************************************************************)
(* C20: during one flood_maze call, after the reset a cost is only ever    *)
(* lowered, every cell is handed to queue.add at most once (so at most 256 *)
(* entries are ever added and the queue never holds more than 256), and    *)
(* the call returns, with the queue empty.                                 *)
(***************************************************************************)
C20_FloodTerminates ==
  /\ [](/\ \A c \in Cells : added[c] <= 1
        /\ QueueSize(queue) <= 256
        /\ pc = "done" => QueueSize(queue) = 0)
  /\ [][pc = "loop" => \A c \in Cells : m_cost'[c] <= m_cost[c]]_vars
  /\ <>(pc = "done")

\* a flood that has returned after queueing every one of the 256 cells once
C20_Witness ==
  /\ pc = "done"
  /\ QueueSize(queue) = 0
  /\ \A c \in Cells : added[c] = 1
  /\ PerimeterWalls(m_walls)

(***************************************************************************)
(* C21: right after flood_maze(T) on a symmetric wall map with its         *)
(* perimeter walls, for every cell c with 0 < cost[c] < 255 and every      *)
(* preferred direction p the direction d = direction_to_smallest(c, p) is  *)
(* an open side of c and cost[neighbour(c, d)] = cost[c] - 1; and moving   *)
(* to neighbour(c, d) again and again reaches T after exactly cost[c]      *)
(* moves, every move through an open side.                                 *)
(***************************************************************************)
\* cells from which the whole walk to the target is followed: the start cell
\* and the bottom of the last column, the two ends of the 256-cell corridor
DescentStarts == {START, 240}

\* one move of the walk: st = [cell, heading, moves, open]; the robot asks
\* with its heading as the preferred direction
DescendStep(walls, cost, st) ==
  LET d == DirectionToSmallest(walls, cost, st.cell, st.heading)
  IN  [cell    |-> neighbour(st.cell, d),
       heading |-> d,
       moves   |-> st.moves + 1,
       open    |-> st.open /\ is_exit(walls, st.cell, d)]

\* at most n moves, stopping on a cell of cost 0
RECURSIVE DescendSteps(_, _, _, _)
DescendSteps(walls, cost, st, n) ==
  IF cost[st.cell] = 0 THEN st
  ELSE IF n = 1 THEN DescendStep(walls, cost, st)
  ELSE DescendSteps(walls, cost, DescendSteps(walls, cost, st, n \div 2), n - (n \div 2))

Descent(walls, cost, c, p) ==
  DescendSteps(walls, cost, [cell |-> c, heading |-> p, moves |-> 0, open |-> TRUE],
               MAX_COST)

C21_DescentToTarget ==
  (call.op = "flood_maze" /\ Symmetric(m_walls) /\ PerimeterWalls(m_walls))
    => /\ \A c \in Cells :
            (0 < m_cost[c] /\ m_cost[c] < MAX_COST) =>
              \A p \in Directions :
                LET d == DirectionToSmallest(m_walls, m_cost, c, p)
                IN  /\ is_exit(m_walls, c, d)
                    /\ m_cost[neighbour(c, d)] = m_cost[c] - 1
       /\ \A c \in DescentStarts :
            (0 < m_cost[c] /\ m_cost[c] < MAX_COST) =>
              \A p \in Directions :
                LET end == Descent(m_walls, m_cost, c, p)
                IN  /\ end.cell = call.cell
                    /\ end.moves = m_cost[c]
                    /\ end.open

\* the corridor through all 256 cells flooded from cell 1: the walk from
\* its far end takes 254 moves and ends on the target
C21_Witness ==
  /\ call.op = "flood_maze"
  /\ call.cell = cell_north(START)
  /\ Symmetric(m_walls)
  /\ PerimeterWalls(m_walls)
  /\ m_cost[START] = 1
  /\ \E c \in DescentStarts :
       /\ m_cost[c] = MAX_COST - 1
       /\ Descent(m_walls, m_cost, c, NORTH).cell = call.cell
       /\ Descent(m_walls, m_cost, c, NORTH).moves = MAX_COST - 1

(***************************************************************************)
(* C22: when the costs are those of flood_maze(T) and walls have only been *)
(* added by set_wall_present since, a new flood_maze(T) leaves in every    *)
(* cell a cost that is at least the cost it held (255 being the largest):  *)
(* no cell appears closer to the target.                                   *)
(***************************************************************************)
C22_MonotoneUnderDiscovery ==
  [][(call.op = "set_wall_present" /\ call'.op = "flood_maze" /\ m_cost[call'.cell] = 0)
       => \A c \in Cells : m_cost'[c] >= m_cost[c] /\ m_cost'[c] <= MAX_COST]_vars

\* the initialised maze flooded toward the start again after walls were
\* found on the south and west sides of the goal cell: that cell is now 6
\* moves away instead of 4
C22_Witness ==
  /\ call.op = "flood_maze"
  /\ call.cell = START
  /\ ncalls = 3
  /\ Symmetric(m_walls)
  /\ PerimeterWalls(m_walls)
  /\ is_wall(m_walls, GOAL, SOUTH)
  /\ is_wall(m_walls, GOAL, WEST)
  /\ Manhattan(GOAL, START) = 4
  /\ m_cost[GOAL] = 6

=============================================================================
